---- MODULE Spec2Model ----
(***************************************************************************)
(* Model of the Fenix TFT cloud client (custom_components/fenix_tft).      *)
(*                                                                         *)
(* Part 1: the session / authentication manager, FenixTFTApi in api.py,    *)
(* specification Spec.                                                     *)
(* The client runs on one asyncio event loop: code between two awaits is   *)
(* one atomic step, and every network call is a suspension point.  Each    *)
(* action below is therefore either the synchronous prefix of an accessor  *)
(* (up to the first request it sends) or the arrival of one response (up   *)
(* to the next request sent or to the end of the accessor call).           *)
(* A response is handled to the end of its `async with` block in one step: *)
(* the body has been read by then, so leaving the block does not suspend.  *)
(*                                                                         *)
(* Part 2: the polling coordinator, FenixTFTCoordinator in coordinator.py, *)
(* with the commands of climate.py, specification CoordSpec.  A            *)
(* cycle awaits api.get_devices(), which awaits the installation listing,  *)
(* the properties of each device listed and the update trigger in turn;    *)
(* each of these calls is seen through its outcome, a result or an         *)
(* exception, and so are the calls of the commands.  One cycle is in       *)
(* flight at a time: DataUpdateCoordinator of Home Assistant starts the    *)
(* cycles, and its scheduling is taken as given.                           *)
(*                                                                         *)
(* Part 3: the per-device energy requests of one                           *)
(* fetch_devices_with_energy_data call, specification EnergySpec.          *)
(*                                                                         *)
(* Part 4: the PKCE pair, state and nonce of the login attempts,           *)
(* specification PkceSpec.                                                 *)
(*                                                                         *)
(* Part 5: the set_holiday_schedule service of __init__.py, specification  *)
(* HolidaySpec.                                                            *)
(*                                                                         *)
(* Part 6: the chunked fetch of the import_historical_statistics service   *)
(* of __init__.py, specification ImportSpec.  Dates are day numbers: every *)
(* date of the loop is end_date less a whole number of days.               *)
(***************************************************************************)
EXTENDS FiniteSets, Integers, Naturals, Sequences, TLC

(***************************************************************************)
(* Bounds of the model.                                                    *)
(***************************************************************************)
NumCallers == 2      \* concurrent tasks calling accessors of one client
NumStates == 2       \* distinct values of the random OAuth state string
MaxIssued == 1       \* token sets the identity server issues in one behaviour
MaxTicks == 1        \* clock ticks in one behaviour
TickStep == 30       \* seconds per clock tick
MaxAdvances == 1     \* advances of the event-loop clock in one behaviour
NumEnergyDevices == 6  \* devices of one fetch_devices_with_energy_data call
NumLoginTasks == 2   \* login() coroutines that may run at once in the process
MaxLoginAttempts == 3  \* login attempts in one behaviour

(***************************************************************************)
(* Program constants.                                                      *)
(***************************************************************************)
TOKEN_SKEW == 60           \* api.py:146, `self._token_expires - 60`
DEFAULT_EXPIRES_IN == 3600 \* api.py:169 and api.py:323
HTTP_OK == 200             \* const.py:30
HTTP_REDIRECT == 302       \* const.py:32
HTTP_UNAUTHORIZED == 401   \* a non-success status of the vendor API

Callers == 1..NumCallers

\* The values secrets.token_urlsafe(32) may return for the state parameter.
StateValues == 1..NumStates

\* None of Python: an absent token, expiry or sub.  Issued tokens are >= 1
\* and an expiry is time.time() + expires_in > 0, so 0 is never a value.
None == 0

\* expires_in values a token response may carry; None = key absent.
ExpiresIn == {None, 90}

\* Exceptions of one network call: a transport error (aiohttp.ClientError)
\* or the total timeout `timeout=API_TIMEOUT_SECONDS`, which aiohttp raises
\* as asyncio.TimeoutError (not a ClientError).
NetworkErrors == {"ClientError", "TimeoutError"}

\* The accessors that call _ensure_token first and then send one request.
\* get_device_properties, set_device_temperature, trigger_device_updates,
\* get_room_energy_consumption, get_room_historical_energy,
\* set_holiday_schedule and cancel_holiday_schedule have the shape of a
\* set_device_preset_mode call with a valid preset.
PlainAccessors ==
  {"set_device_preset_mode"}

\* const.py:46-53: off, holidays, program, defrost, boost, manual.
VALID_PRESET_MODES == {0, 1, 2, 4, 5, 6}

\* The preset_mode arguments of a set_device_preset_mode call: manual, and a
\* value that is not a preset.  The other accessors have no such argument.
PresetInputs(req) ==
  IF req = "set_device_preset_mode" THEN {6, 3} ELSE {None}

VARIABLES
  access_token,       \* FenixTFTApi._access_token
  refresh_token,      \* FenixTFTApi._refresh_token
  token_expires,      \* FenixTFTApi._token_expires
  sub,                \* FenixTFTApi._sub
  login_in_progress,  \* FenixTFTApi._login_in_progress
  now,                \* time.time()
  task,               \* per caller: the accessor call in progress
  issued,             \* tokens issued by the identity server so far
  ev,                 \* the last step taken, as observed by its caller
  data,               \* FenixTFTCoordinator.data, the published snapshot
  optimistic_updates, \* FenixTFTCoordinator._optimistic_updates
  startup_time,       \* FenixTFTCoordinator._startup_time
  error_backoff_until,\* FenixTFTCoordinator._error_backoff_until
  update_interval,    \* FenixTFTCoordinator.update_interval, in seconds
  loop_time,          \* hass.loop.time()
  refresh,            \* the refresh cycle: "idle" or the call it awaits
  fetch,              \* api.get_devices() in flight: its local variables
  command,            \* the preset command awaiting the vendor API
  advances,           \* clock advances so far
  cev,                \* the last step of the coordinator or of a command
  unrecorded,         \* history: devices commanded on an empty snapshot
  energy_call,        \* fetch_devices_with_energy_data: "idle" or "gather"
  semaphore,          \* the free slots of its asyncio.Semaphore
  energy_tasks,       \* per device: its _fetch_device_energy_data task
  energy_result,      \* what the last fetch_devices_with_energy_data returned
  drawn,              \* values drawn from the secrets module so far
  login_tasks,        \* per login() coroutine: its local variables
  attempts,           \* history: what each attempt sent to the identity server
  holiday_call,       \* the set_holiday_schedule service call: its locals
  import_call         \* _fetch_historical_energy_data: its locals

authVars ==
  <<access_token, refresh_token, token_expires, sub, login_in_progress,
    now, task, issued, ev>>

coordVars ==
  <<data, optimistic_updates, startup_time, error_backoff_until,
    update_interval, loop_time, refresh, fetch, command, advances, cev,
    unrecorded>>

energyVars == <<energy_call, semaphore, energy_tasks, energy_result>>

pkceVars == <<drawn, login_tasks, attempts>>

holidayVars == <<holiday_call>>

importVars == <<import_call>>

vars ==
  <<authVars, coordVars, energyVars, pkceVars, holidayVars, importVars>>

\* What the steps of one part leave alone.
authRest == <<coordVars, energyVars, pkceVars, holidayVars, importVars>>

coordRest == <<authVars, energyVars, pkceVars, holidayVars, importVars>>

energyRest == <<authVars, coordVars, pkceVars, holidayVars, importVars>>

pkceRest == <<authVars, coordVars, energyVars, holidayVars, importVars>>

holidayRest == <<authVars, coordVars, energyVars, pkceVars, importVars>>

importRest == <<authVars, coordVars, energyVars, pkceVars, holidayVars>>

TokenState == <<access_token, refresh_token, token_expires>>

\* The fragment of a callback URL: code, id_token and state, each possibly
\* missing (parse_qs drops blank values, so a missing one reads as None).
NoFrag == [seen |-> FALSE, code |-> FALSE, id_token |-> FALSE, state |-> None]

Fragments ==
  [seen : {TRUE}, code : BOOLEAN, id_token : BOOLEAN,
   state : {None} \cup StateValues]

IdleTask ==
  [pc |-> "idle", req |-> "none", bearer |-> None,
   ensured |-> FALSE, st |-> None, pre |-> <<None, None, None>>,
   frag |-> NoFrag, posted |-> FALSE]

\* ev: kind of the step; exc, the exception its caller sees ("none": no
\* exception); cb, what _handle_callback made of the callback of the login
\* attempt; pre, the token fields before the call; posted, the attempt has
\* posted the credentials; fast, the step handled an authorization redirect
\* to the fenix:// callback scheme; rejected, _ensure_token returned in this
\* step and the accessor then raised on its preset_mode argument.
NoEv ==
  [kind |-> "other", exc |-> "none", cb |-> "none",
   pre |-> <<None, None, None>>, posted |-> FALSE, fast |-> FALSE,
   rejected |-> FALSE]

LoginPcs == {"auth", "page", "form", "callback", "exchange"}

InLogin(c) == task[c].pc \in LoginPcs

(***************************************************************************)
(* The coordinator: constants and initial state.                           *)
(***************************************************************************)
OPTIMISTIC_UPDATE_DURATION == 10  \* coordinator.py:24
PRESET_MODE_OFF == 0              \* const.py:38
PRESET_MODE_HOLIDAYS == 1         \* const.py:39
PRESET_MODE_PROGRAM == 2          \* const.py:40
PRESET_MODE_MANUAL == 6           \* const.py:43
HVAC_ACTION_IDLE == 0             \* const.py:66
HVAC_ACTION_HEATING == 1          \* const.py:67
HVAC_ACTION_OFF == 2              \* const.py:68

\* coordinator.py:12-20 imports these five from const.py, which does not
\* define them; the values stand for "fast interval", "slow interval",
\* "backoff duration" and "startup grace period".
FAST_POLL_SECONDS == 60
SLOW_POLL_SECONDS == 300
SCAN_INTERVAL == 300
STARTUP_FAST_PERIOD == 120
ERROR_BACKOFF_SECONDS == 600

Min(a, b) == IF a < b THEN a ELSE b

Max(a, b) == IF a > b THEN a ELSE b

\* The device ids of the account.
Devices == {"dev1"}

\* What the vendor API reports for one device: program mode and idle,
\* program mode and heating, switched off, or in a holiday schedule.
ServerRecords ==
  { [preset_mode |-> PRESET_MODE_PROGRAM, hvac_action |-> HVAC_ACTION_IDLE],
    [preset_mode |-> PRESET_MODE_PROGRAM, hvac_action |-> HVAC_ACTION_HEATING],
    [preset_mode |-> PRESET_MODE_OFF, hvac_action |-> HVAC_ACTION_OFF],
    [preset_mode |-> PRESET_MODE_HOLIDAYS, hvac_action |-> HVAC_ACTION_IDLE] }

\* The device lists api.get_devices() may return, as a map from the ids
\* listed to their records.  The empty list is one of them.
FreshData == UNION {[S -> ServerRecords] : S \in SUBSET Devices}

\* The empty list of devices; coordinator.data is None before the first
\* cycle, and `not self.data` holds of None and of the empty list alike.
NoDevices == [d \in {} |-> HVAC_ACTION_IDLE]

\* The preset values async_set_hvac_mode sends for HVACMode.OFF and
\* HVACMode.HEAT.
CommandModes == {PRESET_MODE_OFF, PRESET_MODE_MANUAL}

\* Exceptions of api.get_devices() and api.set_device_preset_mode().
ApiErrors == {"FenixTFTApiError", "ClientError", "TimeoutError"}

\* Steps of the event-loop clock, in seconds.
ClockSteps ==
  {1, OPTIMISTIC_UPDATE_DURATION, STARTUP_FAST_PERIOD, ERROR_BACKOFF_SECONDS}

\* The temperature argument of async_set_temperature: absent, or 21 degrees.
Temperatures == {None, 21}

\* command: the vendor API call a climate handler awaits, with the device
\* and the preset value its payload carries.
NoCommand ==
  [device_id |-> "none", preset_mode |-> PRESET_MODE_OFF, call |-> "none"]

\* api.get_devices() before its first call returns: the devices the
\* listing named, those whose properties are still to be fetched, and the
\* list built so far.  during is history: per device, the last preset
\* command that has succeeded since the cycle started, with its time.
NoFetch ==
  [listed |-> {}, pending |-> {}, devices |-> NoDevices, during |-> NoDevices]

\* cev: kind of the step; exc, the exception its caller sees; device_id and
\* preset_mode of a command; fresh, what api.get_devices() returned to the
\* cycle that completed; listing, how the installation listing of the cycle
\* ended ("ok" or its exception); listed, the devices it named; call, the
\* call of api.get_devices() that raised out of it; trigger, how the update
\* trigger of the cycle ended ("none" when none was sent); refresh_requested,
\* the step called coordinator.async_request_refresh().
NoCev ==
  [kind |-> "other", exc |-> "none", device_id |-> "none",
   preset_mode |-> PRESET_MODE_OFF, fresh |-> NoDevices,
   listing |-> "none", listed |-> {}, call |-> "none",
   trigger |-> "none", refresh_requested |-> FALSE]

\* FenixTFTCoordinator.__init__.
CoordInit ==
  /\ data = NoDevices
  /\ optimistic_updates = NoDevices
  /\ loop_time = 0
  /\ startup_time = 0
  /\ error_backoff_until = None
  /\ update_interval = Min(SCAN_INTERVAL, FAST_POLL_SECONDS)
  /\ refresh = "idle"
  /\ fetch = NoFetch
  /\ command = NoCommand
  /\ advances = 0
  /\ cev = NoCev
  /\ unrecorded = {}

\* The devices get_devices() returns to fetch_devices_with_energy_data.
EnergyDevices == 1..NumEnergyDevices

MAX_CONCURRENT_ENERGY_REQUESTS == 5  \* api.py:41

\* No fetch_devices_with_energy_data call is in progress.
\* energy_result: returned, the call has returned; devices, the list it
\* returned, as a map from the ids to daily_energy_consumption ("value", or
\* "absent" for None); failed is history, the devices whose energy request
\* ended in an exception.
NoEnergyResult == [returned |-> FALSE, devices |-> << >>, failed |-> {}]

EnergyInit ==
  /\ energy_call = "idle"
  /\ semaphore = None
  /\ energy_tasks = [d \in EnergyDevices |-> "none"]
  /\ energy_result = NoEnergyResult

\* The login() coroutines of the process: that of the client of the config
\* entry, started by _ensure_token, and those of the clients that
\* config_flow.validate_input creates.
LoginTasks == 1..NumLoginTasks

\* The local variables of login() before _start_authorization has run.
NoLogin ==
  [pc |-> "idle", code_verifier |-> None, state |-> None, nonce |-> None]

\* No login is in progress and nothing has been drawn.
PkceInit ==
  /\ drawn = 0
  /\ login_tasks = [t \in LoginTasks |-> NoLogin]
  /\ attempts = << >>

\* Wall-clock hours of the datetimes a service call carries.
WallHours == 10..13

\* The UTC offset, in hours, of the time zone Home Assistant is set to.
LocalOffset == 1

\* A datetime as cv.datetime hands it to the handler (__init__.py:81-82):
\* its wall-clock reading and its tzinfo, "none" for a naive one.
Datetimes == [wall : WallHours, tzinfo : {"none", "utc"}]

\* holiday_call: pc, where async_set_holiday_schedule is; the two datetimes
\* of the call; exc, the exception the call ended with; network_calls, the
\* vendor API calls it has made; refreshes, the coordinator refreshes it has
\* started.
NoHolidayCall ==
  [pc |-> "idle",
   start_date_input |-> [wall |-> 10, tzinfo |-> "none"],
   end_date_input |-> [wall |-> 10, tzinfo |-> "none"],
   exc |-> "none", network_calls |-> 0, refreshes |-> 0]

HolidayInit == holiday_call = NoHolidayCall

HOURLY_AGGREGATION_MAX_DAYS == 7     \* __init__.py:64
DAILY_AGGREGATION_MAX_DAYS == 90     \* __init__.py:65
DAILY_AGGREGATION_CHUNK_DAYS == 30   \* __init__.py:66
MONTHLY_AGGREGATION_MAX_DAYS == 365  \* __init__.py:67

\* The days_back values the service schema admits: __init__.py:96-98.
DaysBack == 1..365

\* The day number of end_date, the day the import ends on.
ImportEndDate == 365

\* import_call: pc, where _fetch_historical_energy_data is; its arguments
\* and loop variables; chunk_days, that of the chunk requested last;
\* chunks is history, the range and the period of every request sent.
NoImportCall ==
  [pc |-> "idle", days_back |-> 0, start_date |-> 0, end_date |-> 0,
   current_date |-> 0, remaining_days |-> 0, chunk_days |-> 0,
   failed_chunks |-> 0, chunks |-> << >>]

ImportInit == import_call = NoImportCall

Init ==
  /\ CoordInit
  /\ EnergyInit
  /\ PkceInit
  /\ HolidayInit
  /\ ImportInit
  /\ access_token = None
  /\ refresh_token = None
  /\ token_expires = None
  /\ sub = None
  /\ login_in_progress = FALSE
  /\ now = 0
  /\ task = [c \in Callers |-> IdleTask]
  /\ issued = 0
  /\ ev = NoEv


(***************************************************************************)
(* _ensure_token, the part that runs before its first await.               *)
(***************************************************************************)

\* The validity test with <= for <: the instant expires - 60 s still counts
\* as valid.
TokenFreshLate(expires, t) == expires # None /\ t <= expires - TOKEN_SKEW

\* api.py:146, the token is still valid: an expiry is recorded and the clock
\* is more than the 60 s margin before it.
TokenFresh(expires, t) == expires # None /\ t < expires - TOKEN_SKEW

\* The branch _ensure_token takes, without the busy flag.
EnsureDecisionNoFlag ==
  IF access_token = None \/ refresh_token = None THEN "login"
  ELSE IF TokenFresh(token_expires, now) THEN "valid"
  ELSE "refresh"

\* The branch _ensure_token takes: "skip" (a login is in progress, return
\* at once), "login", "valid" (return at once) or "refresh".
EnsureDecision ==
  IF login_in_progress THEN "skip"
  ELSE IF access_token = None \/ refresh_token = None THEN "login"
  ELSE IF TokenFresh(token_expires, now) THEN "valid"
  ELSE "refresh"

\* api.py:486-488: set_device_preset_mode raises FenixTFTApiError for a
\* preset_mode outside VALID_PRESET_MODES.  The check follows the await of
\* _ensure_token (api.py:485), and the argument is not looked at before.
PresetRejected(req, preset_mode) ==
  req = "set_device_preset_mode" /\ preset_mode \notin VALID_PRESET_MODES

\* The accessor call req after _ensure_token has returned: idle again when
\* it raises on its argument, else its request in flight with _headers().
AfterEnsure(base, bearer, preset_mode) ==
  IF PresetRejected(base.req, preset_mode)
  THEN IdleTask
  ELSE [base EXCEPT !.pc = "request", !.bearer = bearer]

\* An accessor starts: it runs _ensure_token (when callsEnsure) and sends the
\* first request that follows: the authorization request of a login, the
\* refresh-token POST, or its own request firstReq with _headers().
\* A login draws the state parameter of its authorization request.
StartAccessor(c, firstReq, callsEnsure) ==
  LET d == IF callsEnsure THEN EnsureDecision ELSE "none"
      base == [IdleTask EXCEPT !.req = firstReq, !.ensured = callsEnsure]
  IN
  /\ task[c].pc = "idle"
  /\ CASE d = "login" ->
            \E state \in StateValues :
              /\ task' = [task EXCEPT ![c] =
                   [base EXCEPT !.pc = "auth", !.st = state,
                                !.pre = TokenState]]
              /\ ev' = [NoEv EXCEPT !.kind = "ensure_" \o d,
                                    !.pre = TokenState]
       [] d = "refresh" ->
            /\ task' = [task EXCEPT ![c] = [base EXCEPT !.pc = "refresh"]]
            /\ ev' = [NoEv EXCEPT !.kind = "ensure_" \o d, !.pre = TokenState]
       [] OTHER ->
            \E preset_mode \in PresetInputs(firstReq) :
              /\ task' = [task EXCEPT ![c] =
                   AfterEnsure(base, access_token, preset_mode)]
              /\ ev' = [NoEv EXCEPT
                          !.kind = "ensure_" \o d, !.pre = TokenState,
                          !.rejected = PresetRejected(firstReq, preset_mode)]
  /\ login_in_progress' = IF d = "login" THEN TRUE ELSE login_in_progress
  /\ UNCHANGED <<access_token, refresh_token, token_expires, sub, now, issued>>

\* get_installations: when no sub is cached, get_userinfo first
\* (_ensure_token, then GET connect/userinfo), else the installations GET
\* directly.  get_installations is the one caller of get_userinfo.
GetInstallations(c) ==
  /\ task[c].pc = "idle"
  /\ IF sub = None
     THEN StartAccessor(c, "userinfo", TRUE)
     ELSE StartAccessor(c, "installations", FALSE)
  /\ UNCHANGED authRest

\* set_device_preset_mode and the accessors of its shape: _ensure_token,
\* then the request.
AuthedAccessor(c) ==
  /\ task[c].pc = "idle"
  /\ \E op \in PlainAccessors : StartAccessor(c, op, TRUE)
  /\ UNCHANGED authRest

(***************************************************************************)
(* login(): one action per response of its network calls.                  *)
(***************************************************************************)

\* The exceptions login() catches and turns into `return False`.
LoginCaught == {"ClientError", "FenixTFTApiError", "ValueError", "KeyError"}

\* What the caller of _ensure_token sees when exc is raised inside login():
\* "Login failed" as FenixTFTApiError when login() caught it, else exc.
LoginFailure(exc) ==
  IF exc \in LoginCaught THEN "FenixTFTApiError" ELSE exc

\* _handle_callback's check, without the comparison of the state.
CallbackValidNoState(state, frag) == frag.code /\ frag.id_token

\* _handle_callback's check: the returned state is the one generated for
\* this attempt and code and id_token are present.
CallbackValid(state, frag) ==
  frag.state = state /\ frag.code /\ frag.id_token

\* The busy flag after a login attempt, were it cleared without `finally`:
\* only when login() returned True.
FlagAfterLoginNoFinally(success) == ~success

\* api.py:142-143, the busy flag after a login attempt: the finally clause
\* of _ensure_token clears it however login() ended.
FlagAfterLogin(success) == FALSE

\* The login attempt of c ends.  success: login() returned True.  exc: the
\* exception that reaches the caller of _ensure_token otherwise.  a, r, e:
\* the token fields when it ends.  The finally clause clears the busy flag;
\* after a success the accessor goes on to send its request.
LoginEnds(c, success, exc, a, r, e, cb, fast) ==
  /\ access_token' = a
  /\ refresh_token' = r
  /\ token_expires' = e
  /\ login_in_progress' = FlagAfterLogin(success)
  /\ \E preset_mode \in PresetInputs(task[c].req) :
       /\ task' = [task EXCEPT ![c] =
            IF success
            THEN AfterEnsure([IdleTask EXCEPT !.req = task[c].req,
                                              !.ensured = TRUE],
                             a, preset_mode)
            ELSE IdleTask]
       /\ ev' = [kind |-> "login_end",
                 exc |-> IF success THEN "none" ELSE exc,
                 cb |-> cb, pre |-> task[c].pre, posted |-> task[c].posted,
                 fast |-> fast,
                 rejected |-> success /\ PresetRejected(task[c].req,
                                                        preset_mode)]
  /\ UNCHANGED <<sub, now>>

\* login() returned False: _ensure_token raises FenixTFTApiError.
LoginReturnsFalse(c, cb, fast) ==
  /\ LoginEnds(c, FALSE, "FenixTFTApiError",
               access_token, refresh_token, token_expires, cb, fast)
  /\ UNCHANGED issued

\* A network call of login() raised exc: caught (return False) or escaping
\* login() and _ensure_token.
LoginRaises(c, exc) ==
  /\ LoginEnds(c, FALSE, LoginFailure(exc),
               access_token, refresh_token, token_expires,
               IF task[c].pc = "exchange" THEN "accepted" ELSE "none", FALSE)
  /\ UNCHANGED issued

\* The callback URL has been resolved to the fragment frag: check it, then
\* send the code to the token endpoint, or log "Invalid redirect" with
\* `state mismatch = returned_state != state` and give up.
AfterCallback(c, frag, fast) ==
  IF CallbackValid(task[c].st, frag)
  THEN /\ task' = [task EXCEPT ![c].pc = "exchange", ![c].frag = frag]
       /\ ev' = [NoEv EXCEPT !.kind = "callback_ok", !.cb = "accepted",
                             !.posted = task[c].posted, !.fast = fast]
       /\ UNCHANGED <<access_token, refresh_token, token_expires, sub,
                      login_in_progress, now, issued>>
  ELSE LoginReturnsFalse(c, IF frag.state # task[c].st
                               THEN "state_mismatch" ELSE "incomplete", fast)

\* login()'s test for the cached-session path, with the negations dropped.
FastPathWithForm(csrf_token, return_url, login_url) ==
  csrf_token /\ return_url /\ login_url = "fenix"

\* api.py:337, login()'s test for the cached-session path: no CSRF token, no
\* return URL, and a login URL of the fenix:// scheme.
FastPath(csrf_token, return_url, login_url) ==
  ~csrf_token /\ ~return_url /\ login_url = "fenix"

\* Responses to a request that is answered by a redirect.
RedirectResponses ==
  {[exc |-> x, status |-> None, loc |-> "none", frag |-> NoFrag] :
     x \in NetworkErrors}
  \cup {[exc |-> "none", status |-> HTTP_OK, loc |-> "none",
         frag |-> NoFrag]}
  \cup {[exc |-> "none", status |-> HTTP_REDIRECT, loc |-> l,
         frag |-> NoFrag] : l \in {"none", "http"}}
  \cup {[exc |-> "none", status |-> HTTP_REDIRECT, loc |-> "fenix",
         frag |-> f] : f \in Fragments}

\* The login URL is of the fenix:// scheme and the cached-session test has
\* failed: _submit_login_form posts to it, which the HTTP client refuses
\* with InvalidURL, a ClientError; login() catches it.
PostToCallbackScheme(c) ==
  /\ LoginEnds(c, FALSE, LoginFailure("ClientError"),
               access_token, refresh_token, token_expires, "none", TRUE)
  /\ UNCHANGED issued

\* _start_authorization's response, then _fetch_login_page: up to its GET
\* for an http login URL; for a fenix:// one it returns (None, None) at once
\* and login() goes on to _handle_callback, which parses the URL itself.
AuthorizationResponse(c) ==
  /\ task[c].pc = "auth"
  /\ \E resp \in RedirectResponses :
       IF resp.exc # "none" THEN LoginRaises(c, resp.exc)
       ELSE IF resp.status # HTTP_REDIRECT \/ resp.loc = "none"
       THEN LoginReturnsFalse(c, "none", FALSE)
       ELSE IF resp.loc = "http"
       THEN /\ task' = [task EXCEPT ![c].pc = "page"]
            /\ ev' = NoEv
            /\ UNCHANGED <<access_token, refresh_token, token_expires, sub,
                           login_in_progress, now, issued>>
       ELSE IF FastPath(FALSE, FALSE, resp.loc)
       THEN AfterCallback(c, resp.frag, TRUE)
       ELSE PostToCallbackScheme(c)
  /\ UNCHANGED authRest

\* The login page arrives (or not): csrf_token and return_url are those of
\* its form, or None for a status other than 200 or a page without the
\* form.  The login URL is an http one, so the form is posted in every case.
LoginPageResponse(c) ==
  /\ task[c].pc = "page"
  /\ \E resp \in
         {[exc |-> x, status |-> None, form |-> FALSE] : x \in NetworkErrors}
         \cup [exc : {"none"}, status : {HTTP_OK, HTTP_UNAUTHORIZED},
               form : BOOLEAN] :
       IF resp.exc # "none" THEN LoginRaises(c, resp.exc)
       ELSE /\ ~FastPath(resp.status = HTTP_OK /\ resp.form,
                          resp.status = HTTP_OK /\ resp.form, "http")
            /\ task' = [task EXCEPT ![c].pc = "form", ![c].posted = TRUE]
            /\ ev' = NoEv
            /\ UNCHANGED <<access_token, refresh_token, token_expires, sub,
                           login_in_progress, now, issued>>
  /\ UNCHANGED authRest

\* _submit_login_form's response, then _handle_callback up to its GET.
FormResponse(c) ==
  /\ task[c].pc = "form"
  /\ \E resp \in RedirectResponses :
       IF resp.exc # "none" THEN LoginRaises(c, resp.exc)
       ELSE IF resp.status # HTTP_REDIRECT \/ resp.loc = "none"
       THEN LoginReturnsFalse(c, "none", FALSE)
       ELSE IF resp.loc = "http"
       THEN /\ task' = [task EXCEPT ![c].pc = "callback"]
            /\ ev' = NoEv
            /\ UNCHANGED <<access_token, refresh_token, token_expires, sub,
                           login_in_progress, now, issued>>
       ELSE AfterCallback(c, resp.frag, FALSE)
  /\ UNCHANGED authRest

\* _handle_callback's GET is answered: the fragment of its Location header,
\* or of the callback URL itself, is parsed.
CallbackResponse(c) ==
  /\ task[c].pc = "callback"
  /\ \/ \E x \in NetworkErrors : LoginRaises(c, x)
     \/ \E f \in Fragments : AfterCallback(c, f, FALSE)
  /\ UNCHANGED authRest

\* Responses of the token endpoint, to an authorization-code grant and to
\* a refresh-token grant alike.  The server issues MaxIssued token sets at
\* most; after that it only refuses.
TokenResponses ==
  {[exc |-> x, status |-> None, access |-> FALSE, refresh |-> FALSE,
    expires_in |-> None] : x \in NetworkErrors}
  \cup {[exc |-> "none", status |-> HTTP_UNAUTHORIZED, access |-> FALSE,
         refresh |-> FALSE, expires_in |-> None]}
  \cup {[exc |-> "none", status |-> HTTP_OK, access |-> FALSE,
         refresh |-> FALSE, expires_in |-> None]}
  \cup IF issued < MaxIssued
       THEN {resp \in [exc : {"none"}, status : {HTTP_OK}, access : BOOLEAN,
                       refresh : BOOLEAN, expires_in : ExpiresIn] :
               resp.access \/ resp.refresh}
       ELSE {}

\* _exchange_tokens' response.
TokenResponse(c) ==
  /\ task[c].pc = "exchange"
  /\ \E resp \in TokenResponses :
       IF resp.exc # "none" THEN LoginRaises(c, resp.exc)
       ELSE IF resp.status # HTTP_OK
       THEN LoginRaises(c, "FenixTFTApiError")
       ELSE LET a == IF resp.access THEN issued + 1 ELSE None
                r == IF resp.refresh THEN issued + 1 ELSE None
                secs == IF resp.expires_in = None THEN DEFAULT_EXPIRES_IN
                        ELSE resp.expires_in
            IN /\ issued' = IF resp.access \/ resp.refresh THEN issued + 1
                             ELSE issued
               /\ IF a # None /\ r # None
                  THEN LoginEnds(c, TRUE, "none", a, r, now + secs,
                                 "accepted", FALSE)
                  ELSE LoginEnds(c, FALSE, LoginFailure("FenixTFTApiError"),
                                 a, r, token_expires, "accepted", FALSE)
  /\ UNCHANGED authRest


(***************************************************************************)
(* _ensure_token's refresh-token exchange and the accessors' own requests. *)
(***************************************************************************)

\* The accessor call of c ends and its caller sees exc ("none": a result).
AccessorEnds(c, kind, exc) ==
  /\ task' = [task EXCEPT ![c] = IdleTask]
  /\ ev' = IF kind = "refresh_end"
           THEN [NoEv EXCEPT !.kind = kind, !.exc = exc]
           ELSE NoEv

\* The response to the refresh-token POST.  Nothing in _ensure_token catches
\* an exception of this call.
RefreshResponse(c) ==
  /\ task[c].pc = "refresh"
  /\ \E resp \in TokenResponses :
       IF resp.exc # "none"
       THEN /\ AccessorEnds(c, "refresh_end", resp.exc)
            /\ UNCHANGED <<access_token, refresh_token, token_expires,
                           issued>>
       ELSE IF resp.status # HTTP_OK \/ ~resp.access
       THEN /\ AccessorEnds(c, "refresh_end", "FenixTFTApiError")
            /\ UNCHANGED <<access_token, refresh_token, token_expires,
                           issued>>
       ELSE /\ access_token' = issued + 1
            /\ refresh_token' =
                 IF resp.refresh THEN issued + 1 ELSE refresh_token
            /\ token_expires' =
                 now + (IF resp.expires_in = None THEN DEFAULT_EXPIRES_IN
                        ELSE resp.expires_in)
            /\ issued' = issued + 1
            /\ \E preset_mode \in PresetInputs(task[c].req) :
                 /\ task' = [task EXCEPT ![c] =
                      AfterEnsure(task[c], issued + 1, preset_mode)]
                 /\ ev' = [NoEv EXCEPT
                             !.kind = "refresh_end",
                             !.rejected = PresetRejected(task[c].req,
                                                         preset_mode)]
  /\ UNCHANGED <<sub, login_in_progress, now>>
  /\ UNCHANGED authRest

\* The response to an accessor's own request; only a userinfo response
\* carries a sub.  get_userinfo stores the sub of the response before it
\* checks it; get_installations, its caller, then
\* sends the installations GET.
AccessorResponse(c) ==
  /\ task[c].pc = "request"
  /\ \E resp \in
         {[exc |-> x, status |-> None, sub |-> None] : x \in NetworkErrors}
         \cup {[exc |-> "none", status |-> HTTP_UNAUTHORIZED,
                sub |-> None]}
         \cup [exc : {"none"}, status : {HTTP_OK},
               sub : IF task[c].req = "userinfo" THEN {None, 1} ELSE {None}] :
       IF resp.exc # "none"
       THEN AccessorEnds(c, "call_end", resp.exc) /\ UNCHANGED sub
       ELSE IF resp.status # HTTP_OK
       THEN AccessorEnds(c, "call_end", "FenixTFTApiError") /\ UNCHANGED sub
       ELSE IF task[c].req # "userinfo"
       THEN AccessorEnds(c, "call_end", "none") /\ UNCHANGED sub
       ELSE /\ sub' = resp.sub
            /\ IF resp.sub = None
               THEN AccessorEnds(c, "call_end", "FenixTFTApiError")
               ELSE /\ task' = [task EXCEPT ![c].req = "installations",
                                            ![c].bearer = access_token]
                    /\ ev' = NoEv
  /\ UNCHANGED <<access_token, refresh_token, token_expires,
                 login_in_progress, now, issued>>
  /\ UNCHANGED authRest

\* Time passes.  The client reads the clock to compare it with the expiry
\* recorded (api.py:146) and to stamp a new expiry; while none is recorded
\* the time that passes changes nothing it does, and the clock of the model
\* stands still.
Tick ==
  /\ now < MaxTicks * TickStep
  /\ token_expires # None
  /\ now' = now + TickStep
  /\ ev' = NoEv
  /\ UNCHANGED <<access_token, refresh_token, token_expires, sub,
                 login_in_progress, task, issued>>
  /\ UNCHANGED authRest

Next ==
  \/ \E c \in Callers : GetInstallations(c)
  \/ \E c \in Callers : AuthedAccessor(c)
  \/ \E c \in Callers : AuthorizationResponse(c)
  \/ \E c \in Callers : LoginPageResponse(c)
  \/ \E c \in Callers : FormResponse(c)
  \/ \E c \in Callers : CallbackResponse(c)
  \/ \E c \in Callers : TokenResponse(c)
  \/ \E c \in Callers : RefreshResponse(c)
  \/ \E c \in Callers : AccessorResponse(c)
  \/ Tick

Spec == Init /\ [][Next]_vars

(***************************************************************************)
(* The polling coordinator and the preset commands.                        *)
(***************************************************************************)

\* _predict_hvac_action with IDLE for every preset.
PredictHvacActionIdle(preset_mode) == HVAC_ACTION_IDLE

\* _predict_hvac_action: OFF for preset 0, IDLE for every other preset.
PredictHvacAction(preset_mode) ==
  IF preset_mode = 0 THEN HVAC_ACTION_OFF ELSE HVAC_ACTION_IDLE

\* The expiry test with >= for >.
OptimisticExpiredEarly(timestamp, current_time) ==
  current_time - timestamp >= OPTIMISTIC_UPDATE_DURATION

\* coordinator.py:88, an overlay entry has expired.
OptimisticExpired(timestamp, current_time) ==
  current_time - timestamp > OPTIMISTIC_UPDATE_DURATION

\* The merge left out: the fetched list as the server reported it.
PreserveOptimisticNone(fresh_data, current_time) == fresh_data

\* coordinator.py:85-102: the fresh device list with the entries of the
\* overlay that have not expired written over the devices they name.
PreserveOptimistic(fresh_data, current_time) ==
  [d \in DOMAIN fresh_data |->
     IF /\ d \in DOMAIN optimistic_updates
        /\ ~OptimisticExpired(optimistic_updates[d].timestamp, current_time)
     THEN [preset_mode |-> optimistic_updates[d].preset_mode,
           hvac_action |-> optimistic_updates[d].hvac_action]
     ELSE fresh_data[d]]

\* coordinator.py:104-105: the overlay without its expired entries.
DropExpired(current_time) ==
  [d \in {e \in DOMAIN optimistic_updates :
            ~OptimisticExpired(optimistic_updates[e].timestamp, current_time)}
     |-> optimistic_updates[d]]

\* The backoff test with <= for <.
InBackoffThrough(current_time) ==
  error_backoff_until # None /\ current_time <= error_backoff_until

\* coordinator.py:152, the backoff window is still open.
InBackoff(current_time) ==
  error_backoff_until # None /\ current_time < error_backoff_until

\* _adapt_polling_interval without the backoff rule.
AdaptPollingIntervalNoBackoff(devices) ==
  IF \/ (loop_time - startup_time) < STARTUP_FAST_PERIOD
     \/ \E d \in DOMAIN devices :
          devices[d].hvac_action = HVAC_ACTION_HEATING
  THEN FAST_POLL_SECONDS
  ELSE Max(SCAN_INTERVAL, SLOW_POLL_SECONDS)

\* _adapt_polling_interval: the interval after a successful cycle that
\* returns devices.
AdaptPollingInterval(devices) ==
  IF InBackoff(loop_time)
  THEN update_interval
  ELSE IF \/ (loop_time - startup_time) < STARTUP_FAST_PERIOD
          \/ \E d \in DOMAIN devices :
               devices[d].hvac_action = HVAC_ACTION_HEATING
  THEN FAST_POLL_SECONDS
  ELSE Max(SCAN_INTERVAL, SLOW_POLL_SECONDS)

\* A refresh cycle starts: _async_update_data and api.get_devices() up to
\* the request of get_installations().
AsyncUpdateDataStarts ==
  /\ refresh = "idle"
  /\ refresh' = "get_installations"
  /\ fetch' = NoFetch
  /\ cev' = NoCev
  /\ UNCHANGED <<data, optimistic_updates, startup_time, error_backoff_until,
                 update_interval, loop_time, command, advances,
                 unrecorded>>
  /\ UNCHANGED coordRest

\* api.get_devices() returned fresh_data: coordinator.py:82-109, and the
\* list returned becomes coordinator.data.
AsyncUpdateDataSucceeds(fresh_data, listing, listed, trigger) ==
  /\ LET devices == PreserveOptimistic(fresh_data, loop_time) IN
       /\ data' = devices
       /\ optimistic_updates' = DropExpired(loop_time)
       /\ update_interval' = AdaptPollingInterval(devices)
       /\ cev' = [NoCev EXCEPT !.kind = "cycle_ok", !.fresh = fresh_data,
                               !.listing = listing, !.listed = listed,
                               !.trigger = trigger]
  /\ refresh' = "idle"
  /\ fetch' = NoFetch
  /\ unrecorded' = {}
  /\ UNCHANGED <<startup_time, error_backoff_until, loop_time, command,
                 advances>>

\* The snapshot after a failed cycle, were the failure to blank it.
SnapshotAfterFailureBlank(old) == NoDevices

\* coordinator.py:80: the cycle raises and returns no list, so
\* coordinator.data stays what it was.
SnapshotAfterFailure(old) == old

\* The polling interval after a failed cycle, were it left alone.
IntervalAfterFailureKept(current) == current

\* coordinator.py:78, the polling interval after a failed cycle.
IntervalAfterFailure(current) == ERROR_BACKOFF_SECONDS

\* api.get_devices() raised err out of call: coordinator.py:74-80.
AsyncUpdateDataFails(call, err) ==
  /\ cev' = [NoCev EXCEPT
               !.kind = "cycle_failed", !.exc = "UpdateFailed",
               !.call = call,
               !.listing = IF call = "get_installations" THEN err ELSE "ok",
               !.listed = fetch.listed,
               !.trigger = IF call = "trigger_device_updates"
                           THEN "failed" ELSE "none"]
  /\ error_backoff_until' = loop_time + ERROR_BACKOFF_SECONDS
  /\ update_interval' = IntervalAfterFailure(update_interval)
  /\ data' = SnapshotAfterFailure(data)
  /\ refresh' = "idle"
  /\ fetch' = NoFetch
  /\ UNCHANGED <<optimistic_updates, startup_time, loop_time, command,
                 advances,
                 unrecorded>>

API_TIMEOUT_SECONDS == 10  \* const.py:35

\* The timeout argument of the request a call sends, None when the request
\* is sent without one: api.py:382, 395 and 528-530; get_userinfo, which
\* get_installations() awaits first when no sub is cached, passes one
\* (api.py:363-365).
RequestTimeout(call) ==
  CASE call = "get_userinfo" -> API_TIMEOUT_SECONDS
    [] call = "get_installations" -> None
    [] call = "get_device_properties" -> None
    [] call = "trigger_device_updates" -> None

\* api.py:404-408: of what get_installations() raises, get_devices() catches
\* FenixTFTApiError and returns the empty list.
ListingCaught(err) == err = "FenixTFTApiError"

\* get_installations() returns the installations with their devices, or
\* raises: api.py:404-417.  With no device listed the loops and
\* update_all_devices() have nothing to await and get_devices() returns.
GetInstallationsResponse ==
  /\ refresh = "get_installations"
  /\ \/ \E installations \in SUBSET Devices :
          IF installations = {}
          THEN AsyncUpdateDataSucceeds(NoDevices, "ok", {}, "none")
          ELSE /\ refresh' = "get_device_properties"
               /\ fetch' = [fetch EXCEPT !.listed = installations,
                                         !.pending = installations]
               /\ cev' = NoCev
               /\ UNCHANGED <<data, optimistic_updates, startup_time,
                              error_backoff_until, update_interval,
                              loop_time, command, advances,
                 unrecorded>>
     \/ \E err \in ApiErrors :
          IF ListingCaught(err)
          THEN AsyncUpdateDataSucceeds(NoDevices, err, {}, "none")
          ELSE AsyncUpdateDataFails("get_installations", err)
  /\ UNCHANGED coordRest

\* api.py:417-452 after the properties call of dev_id has ended with devices
\* as the list built so far: the next device, or update_all_devices(), which
\* sends a trigger when the list has a device and returns at once when not.
NextDevice(dev_id, devices) ==
  IF fetch.pending # {dev_id}
  THEN /\ fetch' = [fetch EXCEPT !.pending = fetch.pending \ {dev_id},
                                 !.devices = devices]
       /\ cev' = NoCev
       /\ UNCHANGED <<data, optimistic_updates, startup_time,
                      error_backoff_until, update_interval, loop_time,
                      refresh, command, advances,
                 unrecorded>>
  ELSE IF DOMAIN devices # {}
  THEN /\ refresh' = "trigger_device_updates"
       /\ fetch' = [fetch EXCEPT !.pending = {}, !.devices = devices]
       /\ cev' = NoCev
       /\ UNCHANGED <<data, optimistic_updates, startup_time,
                      error_backoff_until, update_interval, loop_time,
                      command, advances,
                 unrecorded>>
  ELSE AsyncUpdateDataSucceeds(devices, "ok", fetch.listed, "none")

\* api.py:445-449: a device whose properties call raises FenixTFTApiError is
\* left out of the list (continue); any other exception is not caught.
PropertiesCaught(err) == err = "FenixTFTApiError"

\* get_device_properties(dev_id) returns props or raises: api.py:419-449.
GetDevicePropertiesResponse ==
  /\ refresh = "get_device_properties"
  /\ \E dev_id \in fetch.pending :
       \/ \E props \in ServerRecords :
            NextDevice(dev_id,
                       [d \in DOMAIN fetch.devices \cup {dev_id} |->
                          IF d = dev_id THEN props ELSE fetch.devices[d]])
       \/ \E err \in ApiErrors :
            IF PropertiesCaught(err)
            THEN NextDevice(dev_id, fetch.devices)
            ELSE AsyncUpdateDataFails("get_device_properties", err)
  /\ UNCHANGED coordRest

\* The trigger, were its FenixTFTApiError caught as that of a properties
\* call is.
TriggerCaughtApiError(err) == err = "FenixTFTApiError"

\* api.py:451-452: update_all_devices() is awaited outside every try block
\* of get_devices(), so nothing catches what a trigger raises.
TriggerCaught(err) == FALSE

\* trigger_device_updates() returns or raises: api.py:506-534 and 452-455.
TriggerDeviceUpdatesResponse ==
  /\ refresh = "trigger_device_updates"
  /\ \E err \in ApiErrors \cup {"none"} :
       IF err = "none"
       THEN AsyncUpdateDataSucceeds(fetch.devices, "ok", fetch.listed, "ok")
       ELSE IF TriggerCaught(err)
       THEN AsyncUpdateDataSucceeds(fetch.devices, "ok", fetch.listed,
                                    "failed")
       ELSE AsyncUpdateDataFails("trigger_device_updates", err)
  /\ UNCHANGED coordRest

\* The holiday test, were it never true.
IsHolidayActiveNever(device_id) == FALSE

\* climate.py:121-127, _is_holiday_active of the entity of device_id: its
\* record in coordinator.data shows the holiday preset.
IsHolidayActive(device_id) ==
  /\ device_id \in DOMAIN data
  /\ data[device_id].preset_mode = PRESET_MODE_HOLIDAYS

\* climate.py:219-225, 253-259 and 306-312: the handler raises
\* HomeAssistantError(HOLIDAY_LOCKED_MSG) and has done nothing else.
HolidayLocked(device_id) ==
  /\ cev' = [NoCev EXCEPT !.kind = "cmd_locked",
                          !.exc = "HomeAssistantError",
                          !.device_id = device_id]
  /\ UNCHANGED command

\* async_set_hvac_mode / async_set_preset_mode of the climate entity of
\* device_id, up to the await of api.set_device_preset_mode().
AsyncSetPresetMode ==
  /\ command = NoCommand
  /\ \E device_id \in Devices, preset_mode \in CommandModes :
       IF IsHolidayActive(device_id)
       THEN HolidayLocked(device_id)
       ELSE /\ command' = [device_id |-> device_id,
                           preset_mode |-> preset_mode,
                           call |-> "set_device_preset_mode"]
            /\ cev' = NoCev
  /\ UNCHANGED <<data, optimistic_updates, startup_time, error_backoff_until,
                 update_interval, loop_time, refresh, fetch, advances,
                 unrecorded>>
  /\ UNCHANGED coordRest

\* async_set_temperature of the climate entity of device_id, up to the
\* await of api.set_device_temperature(): climate.py:209-232.  The payload
\* of that call carries the manual preset (api.py:468).
AsyncSetTemperature ==
  /\ command = NoCommand
  /\ \E device_id \in Devices, temp \in Temperatures :
       IF temp = None
       THEN /\ cev' = [NoCev EXCEPT !.kind = "cmd_ignored",
                                    !.device_id = device_id]
            /\ UNCHANGED command
       ELSE IF IsHolidayActive(device_id)
       THEN HolidayLocked(device_id)
       ELSE /\ command' = [device_id |-> device_id,
                           preset_mode |-> PRESET_MODE_MANUAL,
                           call |-> "set_device_temperature"]
            /\ cev' = NoCev
  /\ UNCHANGED <<data, optimistic_updates, startup_time, error_backoff_until,
                 update_interval, loop_time, refresh, fetch, advances,
                 unrecorded>>
  /\ UNCHANGED coordRest

\* api.set_device_temperature() returns or raises err: climate.py:233-249.
\* On success the handler requests a refresh; it re-raises what it catches
\* and catches nothing else.
SetTemperatureEnds ==
  /\ command # NoCommand
  /\ command.call = "set_device_temperature"
  /\ \E err \in ApiErrors \cup {"none"} :
       cev' = [NoCev EXCEPT
                 !.kind = IF err = "none" THEN "temp_ok" ELSE "temp_failed",
                 !.exc = err,
                 !.device_id = command.device_id,
                 !.refresh_requested = (err = "none")]
  /\ command' = NoCommand
  /\ UNCHANGED <<data, optimistic_updates, startup_time, error_backoff_until,
                 update_interval, loop_time, refresh, fetch, advances,
                 unrecorded>>
  /\ UNCHANGED coordRest

\* update_device_preset_mode: nothing when the snapshot is None or empty;
\* else the overlay entry, and the device of the snapshot when listed.
UpdateDevicePresetMode(device_id, preset_mode) ==
  LET predicted_hvac_action == PredictHvacAction(preset_mode) IN
  IF DOMAIN data = {}
  THEN UNCHANGED <<data, optimistic_updates>>
  ELSE /\ optimistic_updates' =
            [d \in DOMAIN optimistic_updates \cup {device_id} |->
               IF d = device_id
               THEN [preset_mode |-> preset_mode,
                     hvac_action |-> predicted_hvac_action,
                     timestamp |-> loop_time]
               ELSE optimistic_updates[d]]
       /\ data' =
            [d \in DOMAIN data |->
               IF d = device_id
               THEN [preset_mode |-> preset_mode,
                     hvac_action |-> predicted_hvac_action]
               ELSE data[d]]

\* The optimistic update, were it made whether or not the call raised.
UpdateAfterCommandAlways(raised) == TRUE

\* climate.py:283-300: update_device_preset_mode is reached only when
\* api.set_device_preset_mode() did not raise.
UpdateAfterCommand(raised) == ~raised

\* api.set_device_preset_mode() returns or raises err; the handler re-raises
\* what it catches and catches nothing else.
SetPresetModeEnds ==
  /\ command # NoCommand
  /\ command.call = "set_device_preset_mode"
  /\ \E err \in ApiErrors \cup {"none"} :
       /\ IF UpdateAfterCommand(err # "none")
          THEN UpdateDevicePresetMode(command.device_id, command.preset_mode)
          ELSE UNCHANGED <<data, optimistic_updates>>
       /\ fetch' =
            IF err = "none" /\ refresh # "idle"
            THEN [fetch EXCEPT !.during =
                    [d \in DOMAIN fetch.during \cup {command.device_id} |->
                       IF d = command.device_id
                       THEN [preset_mode |-> command.preset_mode,
                             timestamp |-> loop_time]
                       ELSE fetch.during[d]]]
            ELSE fetch
       /\ cev' = [NoCev EXCEPT
                    !.kind = IF err = "none" THEN "cmd_ok" ELSE "cmd_failed",
                    !.exc = err,
                    !.device_id = command.device_id,
                    !.preset_mode = command.preset_mode]
       /\ unrecorded' =
            IF UpdateAfterCommand(err # "none") /\ DOMAIN data = {}
            THEN unrecorded \cup {command.device_id}
            ELSE unrecorded
  /\ command' = NoCommand
  /\ UNCHANGED <<startup_time, error_backoff_until, update_interval,
                 loop_time, refresh, advances>>
  /\ UNCHANGED coordRest

\* The event-loop clock advances.
AdvanceClock ==
  /\ advances < MaxAdvances
  /\ \E step \in ClockSteps : loop_time' = loop_time + step
  /\ advances' = advances + 1
  /\ cev' = NoCev
  /\ UNCHANGED <<data, optimistic_updates, startup_time, error_backoff_until,
                 update_interval, refresh, fetch, command, unrecorded>>
  /\ UNCHANGED coordRest

CoordNext ==
  \/ AsyncUpdateDataStarts
  \/ GetInstallationsResponse
  \/ GetDevicePropertiesResponse
  \/ TriggerDeviceUpdatesResponse
  \/ AsyncSetPresetMode
  \/ SetPresetModeEnds
  \/ AsyncSetTemperature
  \/ SetTemperatureEnds
  \/ AdvanceClock

CoordSpec == Init /\ [][CoordNext]_vars

(***************************************************************************)
(* fetch_devices_with_energy_data and its per-device tasks.                *)
(***************************************************************************)

\* A semaphore with a slot for every device.
SemaphoreUnbounded == NumEnergyDevices

\* api.py:695, asyncio.Semaphore(MAX_CONCURRENT_ENERGY_REQUESTS): the free
\* slots of the semaphore when it is created.
SemaphoreInitial == MAX_CONCURRENT_ENERGY_REQUESTS

\* The tasks holding a slot of the semaphore: their energy request (its
\* _ensure_token included) is in flight.
EnergyRequestsInFlight == {d \in EnergyDevices : energy_tasks[d] = "request"}

\* fetch_devices_with_energy_data after get_devices() has returned: the
\* semaphore of this call, one task per device, and the await of gather.
FetchDevicesWithEnergyData ==
  /\ energy_call = "idle"
  /\ energy_call' = "gather"
  /\ semaphore' = SemaphoreInitial
  /\ energy_tasks' = [d \in EnergyDevices |-> "created"]
  /\ energy_result' = NoEnergyResult
  /\ UNCHANGED energyRest

\* The task of device d starts: without room, installation or device id it
\* returns at once (api.py:648-659); else it enters `async with semaphore`,
\* takes a slot when one is free and sends its request, or waits for one.
FetchDeviceEnergyDataStarts(d) ==
  /\ energy_tasks[d] = "created"
  /\ \E has_ids \in BOOLEAN :
       IF ~has_ids
       THEN /\ energy_tasks' = [energy_tasks EXCEPT ![d] = "absent"]
            /\ UNCHANGED semaphore
       ELSE IF semaphore > 0
       THEN /\ energy_tasks' = [energy_tasks EXCEPT ![d] = "request"]
            /\ semaphore' = semaphore - 1
       ELSE /\ energy_tasks' = [energy_tasks EXCEPT ![d] = "waiting"]
            /\ UNCHANGED semaphore
  /\ UNCHANGED <<energy_call, energy_result>>
  /\ UNCHANGED energyRest

\* A task that waited for the semaphore is given a freed slot and sends its
\* request.
SemaphoreAcquired(d) ==
  /\ energy_tasks[d] = "waiting"
  /\ semaphore > 0
  /\ energy_tasks' = [energy_tasks EXCEPT ![d] = "request"]
  /\ semaphore' = semaphore - 1
  /\ UNCHANGED <<energy_call, energy_result>>
  /\ UNCHANGED energyRest

\* api.py:680: the task catches FenixTFTApiError and nothing else.
EnergyCaught(err) == err = "FenixTFTApiError"

\* How a task ends: with the device and a consumption, with the device and
\* None, or with the exception.
EnergyTaskEnds == {"value", "absent", "raised"}

\* get_room_energy_consumption returns or raises (api.py:661-686): the
\* task stores the consumption, or None on FenixTFTApiError, or ends with
\* the exception; leaving `async with` frees the slot in every case.
EnergyResponse(d) ==
  /\ energy_tasks[d] = "request"
  /\ \E err \in ApiErrors \cup {"none"} :
       /\ energy_tasks' =
            [energy_tasks EXCEPT ![d] =
               IF err = "none" THEN "value"
               ELSE IF EnergyCaught(err) THEN "absent" ELSE "raised"]
       /\ energy_result' =
            IF err = "none" THEN energy_result
            ELSE [energy_result EXCEPT !.failed = energy_result.failed \cup {d}]
  /\ semaphore' = semaphore + 1
  /\ UNCHANGED energy_call
  /\ UNCHANGED energyRest

\* api.py:706-711: the results of gather that are exceptions are left out
\* of the list returned.
ResultDevices ==
  [d \in {e \in EnergyDevices : energy_tasks[e] # "raised"} |->
     energy_tasks[d]]

\* Every task has ended: gather(return_exceptions=True) returns and the call
\* returns the filtered list (api.py:703-713).
FetchDevicesWithEnergyDataEnds ==
  /\ energy_call = "gather"
  /\ \A d \in EnergyDevices : energy_tasks[d] \in EnergyTaskEnds
  /\ energy_call' = "idle"
  /\ semaphore' = None
  /\ energy_result' = [energy_result EXCEPT !.returned = TRUE,
                                            !.devices = ResultDevices]
  /\ energy_tasks' = [d \in EnergyDevices |-> "none"]
  /\ UNCHANGED energyRest

EnergyNext ==
  \/ FetchDevicesWithEnergyData
  \/ \E d \in EnergyDevices : FetchDeviceEnergyDataStarts(d)
  \/ \E d \in EnergyDevices : SemaphoreAcquired(d)
  \/ \E d \in EnergyDevices : EnergyResponse(d)
  \/ FetchDevicesWithEnergyDataEnds

EnergySpec == Init /\ [][EnergyNext]_vars

(***************************************************************************)
(* login(): the PKCE pair, the state and the nonce of an attempt.          *)
(***************************************************************************)

\* secrets.token_urlsafe: the value of the draw after n draws.  The values
\* are random strings of 96 and 32 bytes; two draws are taken never to
\* return the same one.
TokenUrlsafe(n) == n + 1

\* api.py:69-73: the challenge of a verifier, the unpadded base64url text of
\* its SHA-256 digest; distinct verifiers have distinct challenges.
CodeChallenge(code_verifier) == 2 * code_verifier + 101

\* The verifier of the attempt started last, were login() to keep the
\* verifier on the client instead of in a local variable.
VerifierOfLastAttempt(t) == attempts[Len(attempts)].code_verifier

\* api.py:351: the verifier login() passes to _exchange_tokens is the one
\* _start_authorization returned to it.
VerifierForExchange(t) == login_tasks[t].code_verifier

\* login() up to the authorization request of _start_authorization
\* (api.py:176-196): a new pair, state and nonce; the request carries the
\* challenge, the state and the nonce.
StartAuthorization(t) ==
  /\ login_tasks[t].pc = "idle"
  /\ Len(attempts) < MaxLoginAttempts
  /\ LET code_verifier == TokenUrlsafe(drawn)
         state == TokenUrlsafe(drawn + 1)
         nonce == TokenUrlsafe(drawn + 2)
     IN /\ drawn' = drawn + 3
        /\ login_tasks' = [login_tasks EXCEPT ![t] =
             [pc |-> "authorize", code_verifier |-> code_verifier,
              state |-> state, nonce |-> nonce]]
        /\ attempts' = Append(attempts,
             [task |-> t, code_verifier |-> code_verifier,
              code_challenge |-> CodeChallenge(code_verifier),
              state |-> state, nonce |-> nonce, exchanged |-> None])
  /\ UNCHANGED pkceRest

\* The attempt of t ends without a token request: login() returns False or
\* an exception leaves it.
LoginGivesUp(t) ==
  /\ login_tasks' = [login_tasks EXCEPT ![t] = NoLogin]
  /\ UNCHANGED <<drawn, attempts>>

\* The authorization request is answered (api.py:197-206, 331-333).  After
\* a redirect login() goes through the login page, the form and the
\* callback, none of which touches the verifier.
StartAuthorizationResponse(t) ==
  /\ login_tasks[t].pc = "authorize"
  /\ \E ok \in BOOLEAN :
       IF ok
       THEN /\ login_tasks' = [login_tasks EXCEPT ![t].pc = "callback"]
            /\ UNCHANGED <<drawn, attempts>>
       ELSE LoginGivesUp(t)
  /\ UNCHANGED pkceRest

\* The callback of the attempt has been handled (api.py:335-351): with a
\* code and an id_token login() sends the token request of
\* _exchange_tokens, which carries the verifier.
HandleCallbackEnds(t) ==
  /\ login_tasks[t].pc = "callback"
  /\ \E ok \in BOOLEAN :
       IF ok
       THEN /\ login_tasks' = [login_tasks EXCEPT ![t].pc = "exchange"]
            /\ attempts' =
                 [i \in DOMAIN attempts |->
                    IF /\ attempts[i].task = t
                       /\ \A j \in DOMAIN attempts :
                            attempts[j].task = t => j <= i
                    THEN [attempts[i] EXCEPT
                            !.exchanged = VerifierForExchange(t)]
                    ELSE attempts[i]]
            /\ UNCHANGED drawn
       ELSE LoginGivesUp(t)
  /\ UNCHANGED pkceRest

\* The token request is answered and login() returns (api.py:309-357).
ExchangeTokensResponse(t) ==
  /\ login_tasks[t].pc = "exchange"
  /\ LoginGivesUp(t)
  /\ UNCHANGED pkceRest

PkceNext ==
  \/ \E t \in LoginTasks : StartAuthorization(t)
  \/ \E t \in LoginTasks : StartAuthorizationResponse(t)
  \/ \E t \in LoginTasks : HandleCallbackEnds(t)
  \/ \E t \in LoginTasks : ExchangeTokensResponse(t)

PkceSpec == Init /\ [][PkceNext]_vars

(***************************************************************************)
(* The set_holiday_schedule service.                                       *)
(***************************************************************************)

\* The UTC offset of an aware datetime.
UtcOffset(tzinfo) == IF tzinfo = "utc" THEN 0 ELSE LocalOffset

\* dt_util.as_local: the same instant, read in the local time zone.
AsLocal(d) ==
  [wall |-> d.wall - UtcOffset(d.tzinfo) + LocalOffset, tzinfo |-> "local"]

\* __init__.py:437-447: an aware datetime is converted to local time, a naive
\* one is kept as it is, without a tzinfo.
LocalDate(d) == IF d.tzinfo = "none" THEN d ELSE AsLocal(d)

\* datetime comparison: a naive and an aware datetime cannot be compared,
\* the operator raises TypeError.
Comparable(a, b) == (a.tzinfo = "none") <=> (b.tzinfo = "none")

\* a <= b for two comparable datetimes: wall-clock readings for naive ones,
\* instants for aware ones.
DatetimeLe(a, b) ==
  IF a.tzinfo = "none"
  THEN a.wall <= b.wall
  ELSE a.wall - UtcOffset(a.tzinfo) <= b.wall - UtcOffset(b.tzinfo)

\* The instant a datetime of a service call stands for, a naive one being
\* local time.
Instant(d) ==
  IF d.tzinfo = "none" THEN d.wall - LocalOffset
  ELSE d.wall - UtcOffset(d.tzinfo)

\* async_set_holiday_schedule up to its first await, __init__.py:430-478:
\* the date validation, the lookup of the installation, and the call of
\* api.set_holiday_schedule().
AsyncSetHolidaySchedule ==
  /\ holiday_call.pc \in {"idle", "ended"}
  /\ \E start_date_input \in Datetimes, end_date_input \in Datetimes,
        found \in BOOLEAN :
       LET start_date == LocalDate(start_date_input)
           end_date == LocalDate(end_date_input)
           call == [NoHolidayCall EXCEPT
                      !.start_date_input = start_date_input,
                      !.end_date_input = end_date_input]
       IN  holiday_call' =
             IF ~Comparable(end_date, start_date)
             THEN [call EXCEPT !.pc = "ended", !.exc = "TypeError"]
             ELSE IF DatetimeLe(end_date, start_date)
             THEN [call EXCEPT !.pc = "ended",
                               !.exc = "ServiceValidationError"]
             ELSE IF ~found
             THEN [call EXCEPT !.pc = "ended",
                               !.exc = "ServiceValidationError"]
             ELSE [call EXCEPT !.pc = "set_holiday_schedule",
                               !.network_calls = 1]
  /\ UNCHANGED holidayRest

\* api.set_holiday_schedule() returns or raises: __init__.py:476-488.
SetHolidayScheduleResponse ==
  /\ holiday_call.pc = "set_holiday_schedule"
  /\ \E err \in ApiErrors \cup {"none"} :
       holiday_call' =
         IF err = "none"
         THEN [holiday_call EXCEPT !.pc = "sleep"]
         ELSE [holiday_call EXCEPT
                 !.pc = "ended",
                 !.exc = IF err = "FenixTFTApiError"
                         THEN "HomeAssistantError" ELSE err]
  /\ UNCHANGED holidayRest

\* asyncio.sleep(HOLIDAY_PROPAGATION_DELAY) returns and the handler
\* refreshes the coordinator: __init__.py:490-495.
HolidayPropagationDelayEnds ==
  /\ holiday_call.pc = "sleep"
  /\ holiday_call' = [holiday_call EXCEPT !.pc = "ended", !.refreshes = 1]
  /\ UNCHANGED holidayRest

HolidayNext ==
  \/ AsyncSetHolidaySchedule
  \/ SetHolidayScheduleResponse
  \/ HolidayPropagationDelayEnds

HolidaySpec == Init /\ [][HolidayNext]_vars

(***************************************************************************)
(* The chunked fetch of the historical import.                             *)
(***************************************************************************)

\* _determine_aggregation_period: the period and the number of days of the
\* chunk that starts days_back_from_end days before end_date.
DetermineAggregationPeriod(days_back_from_end, remaining_days) ==
  IF days_back_from_end < HOURLY_AGGREGATION_MAX_DAYS
  THEN [period |-> "Hour",
        chunk_days |-> Min(HOURLY_AGGREGATION_MAX_DAYS - days_back_from_end,
                           remaining_days)]
  ELSE IF days_back_from_end < DAILY_AGGREGATION_MAX_DAYS
  THEN [period |-> "Day",
        chunk_days |-> Min(DAILY_AGGREGATION_CHUNK_DAYS, remaining_days)]
  ELSE [period |-> "Month",
        chunk_days |-> Min(MONTHLY_AGGREGATION_MAX_DAYS, remaining_days)]

\* __init__.py:345, the condition of the while loop.
LoopCondition ==
  import_call.remaining_days > 0
    /\ import_call.current_date > import_call.start_date

\* _calculate_import_date_range and the head of
\* _fetch_historical_energy_data: __init__.py:249-255 and 339-343.
FetchHistoricalEnergyData ==
  /\ import_call.pc \in {"idle", "returned", "raised"}
  /\ \E days_back \in DaysBack :
       import_call' =
         [NoImportCall EXCEPT
            !.pc = "loop",
            !.days_back = days_back,
            !.end_date = ImportEndDate,
            !.start_date = ImportEndDate - days_back,
            !.current_date = ImportEndDate,
            !.remaining_days = days_back]
  /\ UNCHANGED importRest

\* One pass of the loop up to the await of api.get_room_historical_energy:
\* __init__.py:345-379.
ChunkRequest ==
  /\ import_call.pc = "loop"
  /\ LoopCondition
  /\ LET days_back_from_end == import_call.end_date - import_call.current_date
         agg == DetermineAggregationPeriod(days_back_from_end,
                                           import_call.remaining_days)
         chunk_end == import_call.current_date
         chunk_start == Max(import_call.current_date - agg.chunk_days,
                            import_call.start_date)
     IN  import_call' =
           [import_call EXCEPT
              !.pc = "request",
              !.chunk_days = agg.chunk_days,
              !.chunks = Append(@, [chunk_start |-> chunk_start,
                                    chunk_end |-> chunk_end,
                                    period |-> agg.period])]
  /\ UNCHANGED importRest

\* __init__.py:397, the loop catches FenixTFTApiError and nothing else.
ChunkCaught(err) == err = "FenixTFTApiError"

\* The request returns or raises, and the loop moves to the next chunk
\* after its rate-limit sleep: __init__.py:380-412.
ChunkResponse ==
  /\ import_call.pc = "request"
  /\ \E err \in ApiErrors \cup {"none"} :
       import_call' =
         IF err = "none" \/ ChunkCaught(err)
         THEN [import_call EXCEPT
                 !.pc = "loop",
                 !.failed_chunks = IF err = "none" THEN @ ELSE @ + 1,
                 !.current_date =
                    import_call.chunks[Len(import_call.chunks)].chunk_start,
                 !.remaining_days = @ - import_call.chunk_days]
         ELSE [import_call EXCEPT !.pc = "raised"]
  /\ UNCHANGED importRest

\* The loop condition is false: the function returns what it has fetched.
FetchHistoricalEnergyDataReturns ==
  /\ import_call.pc = "loop"
  /\ ~LoopCondition
  /\ import_call' = [import_call EXCEPT !.pc = "returned"]
  /\ UNCHANGED importRest

ImportNext ==
  \/ FetchHistoricalEnergyData
  \/ ChunkRequest
  \/ ChunkResponse
  \/ FetchHistoricalEnergyDataReturns

ImportSpec == Init /\ [][ImportNext]_vars

(***************************************************************************)
(* Properties of the session manager.                                      *)
(***************************************************************************)

EnsureKinds == {"ensure_skip", "ensure_login", "ensure_valid", "ensure_refresh"}

LoginsInFlight == {c \in Callers : InLogin(c)}

\* C1: for any number of concurrent _ensure_token calls, at no time are two
\* login attempts in flight for the session: the busy flag is set exactly
\* while one caller is inside login(), and a call that arrives meanwhile
\* starts no second attempt.
SingleFlightLogin ==
  /\ Cardinality(LoginsInFlight) <= 1
  /\ login_in_progress <=> LoginsInFlight # {}

\* C1 witness: a second call ran _ensure_token while a login was in flight;
\* its request is out and the one login is still in flight.
ConcurrentCallDuringLogin ==
  /\ ev.kind = "ensure_skip"
  /\ Cardinality(LoginsInFlight) = 1
  /\ \E c \in Callers : task[c].pc = "request"

\* C2: an _ensure_token call that finds a login in progress does not return
\* before that login has finished.
EnsureWaitsForLogin ==
  ev.kind = "ensure_skip" => ~login_in_progress

\* C3: no authenticated request is in flight that was sent while the access
\* token was absent.
NoRequestWithoutToken ==
  \A c \in Callers : task[c].pc = "request" => task[c].bearer # None

\* C4: every accessor call has run _ensure_token before its request is
\* sent, the installations GET with a cached sub included.
EnsureBeforeEveryRequest ==
  \A c \in Callers : task[c].pc = "request" => task[c].ensured

\* C5: with both tokens present, _ensure_token sends the refresh-token POST
\* if and only if now >= expires - 60 s or no expiry is recorded; otherwise
\* it returns at once and the token state is what it was.
RefreshIffNearExpiry ==
  (ev.kind \in EnsureKinds /\ ev.pre[1] # None /\ ev.pre[2] # None) =>
    /\ ev.kind = "ensure_refresh" <=>
         (ev.pre[3] = None \/ now >= ev.pre[3] - TOKEN_SKEW)
    /\ ev.kind # "ensure_refresh" =>
         (ev.kind = "ensure_valid" /\ TokenState = ev.pre)

\* C5 witness: a call made exactly 60 s before the expiry sent a refresh.
RefreshAtSkewBoundary ==
  /\ ev.kind = "ensure_refresh"
  /\ ev.pre[1] # None /\ ev.pre[2] # None
  /\ ev.pre[3] # None /\ now = ev.pre[3] - TOKEN_SKEW
  /\ \E c \in Callers : task[c].pc = "refresh"

\* C6: when the refresh-token exchange fails with a non-success status or
\* without an access_token, the token state is cleared.
RefreshFailureClearsTokens ==
  (ev.kind = "refresh_end" /\ ev.exc = "FenixTFTApiError") =>
    (access_token = None /\ refresh_token = None)

\* C7: a login whose callback lacks code, id_token or state, or carries a
\* state other than the one generated for the attempt, never posts to the
\* token endpoint, fails, and sets no tokens.
InvalidCallbackFailsLogin ==
  /\ \A c \in Callers :
       task[c].pc = "exchange" =>
         /\ task[c].frag.state = task[c].st
         /\ task[c].frag.code /\ task[c].frag.id_token
  /\ (ev.kind = "login_end" /\ ev.cb \in {"state_mismatch", "incomplete"}) =>
       (ev.exc = "FenixTFTApiError" /\ TokenState = ev.pre)

\* C7 witness: a login ended on a callback that carried a state other than
\* the one of the attempt.
LoginEndedOnStateMismatch ==
  /\ ev.kind = "login_end"
  /\ ev.cb = "state_mismatch"
  /\ ev.exc = "FenixTFTApiError"

\* C8: a failed login attempt leaves access_token, refresh_token and
\* token_expires as they were before it.
FailedLoginKeepsTokenState ==
  (ev.kind = "login_end" /\ ev.exc # "none") => TokenState = ev.pre

\* C9: whenever access_token is present, refresh_token is present.
AccessImpliesRefresh ==
  access_token # None => refresh_token # None

\* C10: a login that fails reaches the caller of _ensure_token as
\* FenixTFTApiError and as no other exception type.
LoginFailureIsApiError ==
  (ev.kind = "login_end" /\ ev.exc # "none") => ev.exc = "FenixTFTApiError"

\* C25: a set_device_preset_mode call that raises on its preset_mode
\* argument has awaited no network call: its _ensure_token returned at once,
\* with neither a login nor a refresh-token exchange.
InvalidPresetRejectedOffline ==
  ev.rejected => ev.kind \in {"ensure_valid", "ensure_skip"}

\* C30: at most one refresh-token exchange of the session is in flight.
SingleFlightRefresh ==
  Cardinality({c \in Callers : task[c].pc = "refresh"}) <= 1

\* C11: whenever login() reports success, the sub of the user is present.
LoginSuccessHasSub ==
  (ev.kind = "login_end" /\ ev.exc = "none") => sub # None

\* C12: an authorization redirect to the fenix:// scheme is itself taken as
\* the callback and checked against the state of the attempt: when it
\* passes, the code goes to the token endpoint without the credentials
\* having been posted, and when it does not, the login fails.  A login on
\* this path that reached the token endpoint succeeds exactly when the
\* exchange delivered both tokens.
CachedSessionFastPath ==
  /\ ev.fast =>
       /\ ~ev.posted
       /\ ev.cb # "none"
       /\ ev.cb = "accepted" =>
            /\ ev.kind = "callback_ok"
            /\ \E c \in Callers :
                 /\ task[c].pc = "exchange" /\ ~task[c].posted
                 /\ task[c].frag.state = task[c].st
                 /\ task[c].frag.code /\ task[c].frag.id_token
       /\ ev.cb # "accepted" =>
            (ev.kind = "login_end" /\ ev.exc = "FenixTFTApiError")
  /\ \A c \in Callers : task[c].pc \in {"form", "callback"} => task[c].posted
  /\ (ev.kind = "login_end" /\ ev.cb = "accepted" /\ ~ev.posted) =>
       (ev.exc = "none" <=> (access_token # None /\ refresh_token # None))

\* C12 witness: a login succeeded without the credentials having been
\* posted.
FastPathLoginSucceeded ==
  /\ ev.kind = "login_end" /\ ev.exc = "none"
  /\ ev.cb = "accepted" /\ ~ev.posted
  /\ access_token # None /\ refresh_token # None

OptimisticTTL ==
  [][cev'.kind = "cycle_ok" =>
       \A d \in DOMAIN optimistic_updates :
         LET e == optimistic_updates[d] IN
         IF loop_time - e.timestamp <= OPTIMISTIC_UPDATE_DURATION
         THEN /\ d \in DOMAIN optimistic_updates'
              /\ optimistic_updates'[d] = e
              /\ d \in DOMAIN cev'.fresh =>
                   data'[d] = [preset_mode |-> e.preset_mode,
                               hvac_action |-> e.hvac_action]
         ELSE /\ d \notin DOMAIN optimistic_updates'
              /\ d \in DOMAIN cev'.fresh => data'[d] = cev'.fresh[d]]_vars

\* C14 witness: a cycle completed exactly 10 s after the entry was stamped
\* and published the prediction over a different server report.
OverlayAppliedAtTTL ==
  /\ cev.kind = "cycle_ok"
  /\ \E d \in DOMAIN optimistic_updates \cap DOMAIN data :
       /\ loop_time - optimistic_updates[d].timestamp
            = OPTIMISTIC_UPDATE_DURATION
       /\ data[d].preset_mode = optimistic_updates[d].preset_mode
       /\ data[d].hvac_action = optimistic_updates[d].hvac_action
       /\ cev.fresh[d] # data[d]

\* C15: no overlay entry is in the overlay more than 10 s after it was
\* stamped.
NoEntryPastTTL ==
  \A d \in DOMAIN optimistic_updates :
    loop_time - optimistic_updates[d].timestamp <= OPTIMISTIC_UPDATE_DURATION

FailedCommandChangesNothing ==
  [][cev'.kind = "cmd_failed" =>
       /\ cev'.exc \in ApiErrors
       /\ data' = data
       /\ optimistic_updates' = optimistic_updates]_vars

\* C17 witness: a command failed while a snapshot with its device was
\* published.
CommandFailedOnListedDevice ==
  /\ cev.kind = "cmd_failed" /\ cev.exc = "FenixTFTApiError"
  /\ cev.device_id \in DOMAIN data

\* C18: after a successful cycle the interval is the backoff duration
\* inside the backoff window; else the fast interval within the startup
\* period; else the fast interval when a published device is heating; else
\* the slow interval.
IntervalPriorityOrder ==
  cev.kind = "cycle_ok" =>
    update_interval =
      IF error_backoff_until # None /\ loop_time < error_backoff_until
      THEN ERROR_BACKOFF_SECONDS
      ELSE IF loop_time - startup_time < STARTUP_FAST_PERIOD
      THEN FAST_POLL_SECONDS
      ELSE IF \E d \in DOMAIN data : data[d].hvac_action = HVAC_ACTION_HEATING
      THEN FAST_POLL_SECONDS
      ELSE Max(SCAN_INTERVAL, SLOW_POLL_SECONDS)

\* C18 witness: a cycle succeeded inside the backoff window, within the
\* startup period and with a device heating, and the interval is still the
\* backoff duration.
BackoffOutranksStartupAndHeating ==
  /\ cev.kind = "cycle_ok"
  /\ error_backoff_until # None /\ loop_time < error_backoff_until
  /\ loop_time - startup_time < STARTUP_FAST_PERIOD
  /\ \E d \in DOMAIN data : data[d].hvac_action = HVAC_ACTION_HEATING
  /\ update_interval = ERROR_BACKOFF_SECONDS

\* C19: when a cycle has failed, error_backoff_until is the time of the
\* failure plus the backoff duration and the interval is the backoff
\* duration, whatever the startup and heating state.
FailureEntersBackoff ==
  cev.kind = "cycle_failed" =>
    /\ error_backoff_until = loop_time + ERROR_BACKOFF_SECONDS
    /\ update_interval = ERROR_BACKOFF_SECONDS

\* C19 witness: a cycle failed within the startup period with a heating
\* device published.
FailureDuringStartupWhileHeating ==
  /\ cev.kind = "cycle_failed"
  /\ loop_time - startup_time < STARTUP_FAST_PERIOD
  /\ \E d \in DOMAIN data : data[d].hvac_action = HVAC_ACTION_HEATING
  /\ update_interval = ERROR_BACKOFF_SECONDS
  /\ loop_time > 0

\* C20: a cycle whose get_devices call raises reports UpdateFailed and
\* leaves the snapshot and the overlay as they were; the snapshot changes
\* only when a cycle succeeds or a command writes its prediction into it.
FailedCycleKeepsSnapshot ==
  /\ [][cev'.kind = "cycle_failed" =>
          /\ cev'.exc = "UpdateFailed"
          /\ data' = data
          /\ optimistic_updates' = optimistic_updates]_vars
  /\ [][data' # data => cev'.kind \in {"cycle_ok", "cmd_ok"}]_vars

\* C20 witness: a cycle failed while a snapshot and an overlay entry were
\* there to lose.
CycleFailedWithSnapshot ==
  /\ cev.kind = "cycle_failed" /\ cev.exc = "UpdateFailed"
  /\ DOMAIN data # {}
  /\ DOMAIN optimistic_updates # {}

\* C21: a cycle whose installation listing raises, a failed login inside
\* it included, ends as a failed cycle with the backoff engaged; it does
\* not end as a successful cycle that publishes a list.
ListingFailureAbortsCycle ==
  (cev.kind \in {"cycle_ok", "cycle_failed"} /\ cev.listing \in ApiErrors) =>
    /\ cev.kind = "cycle_failed"
    /\ error_backoff_until = loop_time + ERROR_BACKOFF_SECONDS
    /\ update_interval = ERROR_BACKOFF_SECONDS

\* C22: a cycle does not fail on a properties call, and a cycle that
\* completes after a good listing returns a record for every device listed.
PropertyFailureKeepsDevice ==
  /\ cev.kind = "cycle_failed" => cev.call # "get_device_properties"
  /\ (cev.kind = "cycle_ok" /\ cev.listing = "ok") =>
       DOMAIN cev.fresh = cev.listed

\* C27: the snapshot a cycle has just published shows, for every device it
\* lists that has an overlay entry (the cycle has dropped the expired ones),
\* the predicted preset_mode and hvac_action of the entry.
PublishedSnapshotHasOverlay ==
  cev.kind = "cycle_ok" =>
    \A d \in DOMAIN data \cap DOMAIN optimistic_updates :
      /\ data[d].preset_mode = optimistic_updates[d].preset_mode
      /\ data[d].hvac_action = optimistic_updates[d].hvac_action

\* C27 witness: a cycle has published a device with the values of its
\* overlay entry where the server reported other values to the fetch.
OverlayMergedIntoPublished ==
  /\ cev.kind = "cycle_ok"
  /\ \E d \in DOMAIN data \cap DOMAIN optimistic_updates :
       /\ d \in DOMAIN cev.fresh
       /\ cev.fresh[d] # data[d]

\* C29: when a cycle completes and returns a device for which a preset
\* command has succeeded while the cycle was in flight, at most 10 s ago,
\* the snapshot it publishes shows the device with the preset of the
\* command and the hvac_action predicted for it.
CommandDuringCycleNotLost ==
  [][(refresh # "idle" /\ cev'.kind = "cycle_ok") =>
       \A d \in DOMAIN fetch.during \cap DOMAIN cev'.fresh :
         loop_time - fetch.during[d].timestamp <= OPTIMISTIC_UPDATE_DURATION =>
           /\ data'[d].preset_mode = fetch.during[d].preset_mode
           /\ data'[d].hvac_action =
                PredictHvacAction(fetch.during[d].preset_mode)]_vars

\* C24: every call a refresh cycle has in flight (installation listing,
\* properties of a device, update trigger) was sent with a timeout.
CycleCallsCarryTimeout ==
  refresh # "idle" => RequestTimeout(refresh) # None

(***************************************************************************)
(* Properties of the energy requests.                                      *)
(***************************************************************************)

\* C26: during a fetch_devices_with_energy_data call at most 5
\* (MAX_CONCURRENT_ENERGY_REQUESTS) per-device energy requests are in flight.
EnergyRequestsBounded ==
  Cardinality(EnergyRequestsInFlight) <= 5

\* C26 witness: five requests are in flight and a further device waits for
\* the semaphore.
FiveInFlightOneWaiting ==
  /\ Cardinality(EnergyRequestsInFlight) = 5
  /\ \E d \in EnergyDevices : energy_tasks[d] = "waiting"

\* C37: fetch_devices_with_energy_data returns a record for every device
\* get_devices() returned, and every device whose energy request failed is
\* in the list with daily_energy_consumption absent.
\* Violated: a task that ends with an exception other than FenixTFTApiError
\* is filtered out of the result.
FailedEnergyFetchKeepsDevice ==
  energy_result.returned =>
    /\ DOMAIN energy_result.devices = EnergyDevices
    /\ \A d \in energy_result.failed :
         /\ d \in DOMAIN energy_result.devices
         /\ energy_result.devices[d] = "absent"

(***************************************************************************)
(* Properties of the services.                                             *)
(***************************************************************************)

\* C36: a set_holiday_schedule call whose end date is not after its start
\* date ends with a validation error, has made no network call and has
\* started no coordinator refresh.
\* Violated: with one datetime naive and the other aware the comparison
\* itself raises TypeError.
HolidayRangeValidated ==
  ( /\ holiday_call.pc # "idle"
    /\ Instant(holiday_call.end_date_input)
         <= Instant(holiday_call.start_date_input) )
  => /\ holiday_call.pc = "ended"
     /\ holiday_call.exc = "ServiceValidationError"
     /\ holiday_call.network_calls = 0
     /\ holiday_call.refreshes = 0

\* C38: for every days_back of 1..365 the loop of the historical fetch
\* ends, failed chunks or not, after at most days_back requests, and the
\* ranges it has requested start at end_date, follow one another backwards
\* without gap or overlap, and end at start_date.
\* Violated: a request that fails with anything but FenixTFTApiError ends
\* the fetch before start_date is reached.
ImportChunksCoverRange ==
  LET c == import_call.chunks IN
  /\ Len(c) <= import_call.days_back
  /\ import_call.pc \in {"returned", "raised"} =>
       /\ Len(c) >= 1
       /\ c[1].chunk_end = import_call.end_date
       /\ \A i \in 1..Len(c) : c[i].chunk_start < c[i].chunk_end
       /\ \A i \in 1..(Len(c) - 1) : c[i + 1].chunk_end = c[i].chunk_start
       /\ c[Len(c)].chunk_start = import_call.start_date

\* The aggregation of a day by its age in days, counted back from end_date.
PeriodOfAge(age) ==
  IF age <= 7 THEN "Hour" ELSE IF age <= 90 THEN "Day" ELSE "Month"

\* C39: every day of a requested chunk is fetched with the aggregation of
\* its age: Hour for the last 7 days, Day for days 8 to 90 back, Month for
\* days 91 or more back; so no chunk spans two age ranges.
\* Violated: the Day chunks are 30 days long from day 8 on, and the third
\* one reaches back to day 97.
ChunkPeriodMatchesAge ==
  \A i \in 1..Len(import_call.chunks) :
    LET c == import_call.chunks[i] IN
    \A age \in (import_call.end_date - c.chunk_end + 1)
                ..(import_call.end_date - c.chunk_start) :
      c.period = PeriodOfAge(age)

(***************************************************************************)
(* Properties of the PKCE material.                                        *)
(***************************************************************************)

\* C28: no two login attempts share a verifier, a challenge, a state or a
\* nonce, and the verifier an attempt sends to the token endpoint is the one
\* whose challenge its own authorization request carried.
PkcePairPerAttempt ==
  /\ \A i, j \in DOMAIN attempts :
       i # j =>
         /\ attempts[i].code_verifier # attempts[j].code_verifier
         /\ attempts[i].code_challenge # attempts[j].code_challenge
         /\ attempts[i].state # attempts[j].state
         /\ attempts[i].nonce # attempts[j].nonce
  /\ \A i \in DOMAIN attempts :
       attempts[i].exchanged # None =>
         CodeChallenge(attempts[i].exchanged) = attempts[i].code_challenge

\* C28 witness: an attempt has sent its token request after a later attempt
\* of another login() coroutine has started.
ExchangeAfterLaterAttempt ==
  \E i, j \in DOMAIN attempts :
    /\ i < j
    /\ attempts[i].task # attempts[j].task
    /\ attempts[i].exchanged # None
    /\ login_tasks[attempts[i].task].pc = "exchange"
    /\ login_tasks[attempts[j].task].pc = "authorize"

\* C31: update_device_preset_mode on an absent or empty snapshot
\* changes neither the snapshot nor the overlay, and the first snapshot
\* published afterwards shows the server-reported values for that device.
\* Violated: an entry recorded by an earlier command, when the snapshot still
\* listed the device, can be live at that publication and is applied.
EmptySnapshotCommandThenServerValues ==
  [][/\ (cev'.kind = "cmd_ok" /\ DOMAIN data = {})
          => UNCHANGED <<data, optimistic_updates>>
     /\ cev'.kind = "cycle_ok"
          => \A d \in unrecorded \cap DOMAIN cev'.fresh :
               data'[d] = cev'.fresh[d]]_vars

\* C32: when the update trigger sent after the properties were read fails,
\* the cycle fails: what it fetched is discarded, the snapshot published
\* before stays, and the backoff is engaged.
TriggerFailureFailsCycle ==
  [][(refresh = "trigger_device_updates" /\ cev'.trigger = "failed") =>
       /\ cev'.kind = "cycle_failed" /\ cev'.exc = "UpdateFailed"
       /\ data' = data
       /\ refresh' = "idle" /\ fetch' = NoFetch
       /\ error_backoff_until' = loop_time + ERROR_BACKOFF_SECONDS
       /\ update_interval' = ERROR_BACKOFF_SECONDS]_vars

\* C32 witness: a cycle that had fetched a device has just failed on its
\* trigger, and the snapshot of an earlier cycle is still published.
CycleFailedOnTrigger ==
  /\ cev.kind = "cycle_failed" /\ cev.trigger = "failed"
  /\ cev.listed # {}
  /\ DOMAIN data # {}
  /\ update_interval = ERROR_BACKOFF_SECONDS

\* C33: after a successful cycle outside the backoff window in which the
\* server reported a device as heating, the polling interval is the fast
\* interval, whether or not that device has a live overlay entry.
\* Violated: the interval is decided on the list after the overlay was
\* merged into it.
HeatingReportedPollsFast ==
  ( /\ cev.kind = "cycle_ok"
    /\ ~(error_backoff_until # None /\ loop_time < error_backoff_until)
    /\ \E d \in DOMAIN cev.fresh :
         cev.fresh[d].hvac_action = HVAC_ACTION_HEATING )
  => update_interval = FAST_POLL_SECONDS

\* C34: a successful cycle that completes at or after error_backoff_until
\* leaves the backoff: the polling interval is the fast one in the startup
\* period or with a device of the published list heating, and the slow one
\* otherwise; it is not the backoff duration.
RecoveryLeavesBackoff ==
  ( /\ cev.kind = "cycle_ok"
    /\ error_backoff_until # None
    /\ loop_time >= error_backoff_until )
  => /\ update_interval =
          IF \/ (loop_time - startup_time) < STARTUP_FAST_PERIOD
             \/ \E d \in DOMAIN data :
                  data[d].hvac_action = HVAC_ACTION_HEATING
          THEN FAST_POLL_SECONDS
          ELSE Max(SCAN_INTERVAL, SLOW_POLL_SECONDS)
     /\ update_interval # ERROR_BACKOFF_SECONDS

\* C34 witness: a cycle has just succeeded exactly when the backoff window
\* of an earlier failure ended, and the interval is the slow one.
RecoveredAtBackoffEnd ==
  /\ cev.kind = "cycle_ok"
  /\ error_backoff_until # None
  /\ loop_time = error_backoff_until
  /\ update_interval = Max(SCAN_INTERVAL, SLOW_POLL_SECONDS)

\* C35: while the published record of a device shows the holiday preset, a
\* set-temperature (with a temperature), set-hvac-mode or set-preset-mode
\* command for it raises the holiday-locked error; it sends no vendor API
\* call, changes no overlay entry and requests no refresh.
HolidayLocksCommands ==
  [][\A d \in Devices :
       (d \in DOMAIN data /\ data[d].preset_mode = PRESET_MODE_HOLIDAYS) =>
         /\ ~(command = NoCommand /\ command' # NoCommand
                /\ command'.device_id = d)
         /\ (cev'.kind = "cmd_locked" /\ cev'.device_id = d) =>
              /\ cev'.exc = "HomeAssistantError"
              /\ ~cev'.refresh_requested
              /\ UNCHANGED <<data, optimistic_updates, command, refresh,
                             fetch>>]_vars

\* C35 witness: a command for a device published in the holiday preset has
\* just been refused, and nothing awaits the vendor API.
CommandRefusedInHoliday ==
  /\ cev.kind = "cmd_locked" /\ cev.exc = "HomeAssistantError"
  /\ cev.device_id \in DOMAIN data
  /\ data[cev.device_id].preset_mode = PRESET_MODE_HOLIDAYS
  /\ command = NoCommand

TypeOK ==
  /\ access_token \in 0..issued /\ refresh_token \in 0..issued
  /\ token_expires \in Nat /\ now \in Nat
  /\ sub \in {None, 1}
  /\ login_in_progress \in BOOLEAN
  /\ \A c \in Callers : task[c].pc \in LoginPcs \cup {"idle", "refresh", "request"}

====
